---- MODULE Spec2Model ----
(***************************************************************************)
(* ruburu: an anonymous image board (Rocket + sqlx/PostgreSQL).            *)
(*                                                                         *)
(* The model covers the write path: the per-board post sequencer           *)
(* (Post::create_thread, Post::create), the reply-edge table, the captcha  *)
(* lifecycle (Captcha::new, Captcha::verify), the ban guard                *)
(* (NotBanned::from_request) and the create_post handler that composes     *)
(* them.  The database is PostgreSQL at READ COMMITTED: a statement run on *)
(* the pool autocommits and sees committed rows only; a statement run on a *)
(* transaction sees committed rows plus that transaction's own writes, and *)
(* its writes become visible at commit.  Dropping an uncommitted           *)
(* transaction (an early return through `?`, or a dropped request future)  *)
(* rolls it back.                                                          *)
(***************************************************************************)
EXTENDS Integers, Sequences, FiniteSets, TLC

\* ------------------------------------------------------------------ bounds
\* Most post ids the counters hand out, over all boards (guards the counter
\* UPDATE).
MaxPosts == 3
\* Longest text, counted in >>N markers.
MaxMarkers == 1
\* Most captcha challenges issued.
MaxCaptchas == 2
\* Length of a text handed to the renderer, in tokens.
MaxTokens == 2
\* Length of a captcha solution, in characters.
MaxChars == 1
\* Last instant of the database clock.
MaxTime == 3
\* Width of a network address, in bits.
AddrBits == 2
\* Connections of the pool when the callers are as many as the pool is large.
PoolSize == 2

\* ------------------------------------------------------- values and names
Procs == {"r1", "r2"}
NoProc == "none"
\* Board names a request may carry; "x" is never created.
BoardNames == {"a", "x"}
PostIds == 1..MaxPosts
\* A text body is reduced to the sequence of the numbers of its >>N markers;
\* content: Option<&str> is None or Some(body).
Bodies == UNION {[1..n -> PostIds] : n \in 0..MaxMarkers}
None == [some |-> FALSE, body |-> <<>>]
Some(body) == [some |-> TRUE, body |-> body]
Contents == {None} \cup {Some(s) : s \in Bodies}

VARIABLES
    boards,        \* names of the rows of table boards
    next_post_id,  \* boards.next_post_id, committed value, per board name
    posts,         \* rows of table posts visible to every connection
    replies,       \* rows of table replies visible to every connection
    lock,          \* board row -> the transaction holding its row lock
    txPosts,       \* per request: post rows written in its open transaction
    pc,            \* per request: position in create_thread / create
    call,          \* per request: the arguments of the running call, as read so far
    per_board_id,  \* per request: the local per_board_id
    replied,       \* per request: rows of `replied` not yet iterated
    result,        \* per request: outcome of its last finished call
    returned,      \* per board: the Ok(per_board_id) values, in commit order
    failedId       \* per board: id of the attempt rolled back since the last commit

VARIABLES
    captchas,      \* rows of table captchas: [id, solution]
    issued,        \* how many challenge ids Captcha::new has drawn
    consumed,      \* challenge ids some finished verify call has named
    vcall,         \* per request: the running verify call
    fetched,       \* per request: the row its DELETE .. RETURNING yielded
    verified       \* per request: what its last verify call returned

postVars == <<boards, next_post_id, posts, replies, lock, txPosts, pc, call,
              per_board_id, replied, result, returned, failedId>>

\* The sequencer's state apart from the request positions and outcomes.
seqVars == <<boards, next_post_id, posts, replies, lock, txPosts, call,
             per_board_id, replied, returned, failedId>>

VARIABLES
    bans,          \* rows of table bans: [net, reason, created_at, duration]
    now,           \* the database clock, NOW()
    images,        \* rows of table images (hashes)
    files,         \* ./images/<hash> files
    thumbs,        \* ./thumbs/<hash>.png files
    req,           \* per request: what create_post has read of the request
    icall          \* per caller: the Image::from_buf call in progress

captchaVars == <<captchas, issued, consumed, vcall, fetched, verified>>

routeVars == <<bans, now, images, files, thumbs, req, icall>>

VARIABLES
    rin,           \* the arguments of the read or render call made last
    rout           \* what that call returned

queryVars == <<rin, rout>>

VARIABLE
    max_connections  \* the size the pool was built with

poolVars == <<max_connections>>

gateVars == <<captchaVars, routeVars, queryVars, poolVars>>

vars == <<postVars, gateVars>>

\* --------------------------------------------------- schema (migrations)
\* Primary key of posts: (board, id).
PostKeyFree(rows, b, id) == ~\E q \in rows : q.board = b /\ q.id = id

\* Foreign key of posts: (board, thread) names a post of the same board.
ThreadExists(rows, b, t) == \E q \in rows : q.board = b /\ q.id = t

\* (mutant) table replies without its foreign keys.
EdgeRefsExist_Unchecked(rows, e) == TRUE

\* Foreign keys of replies: target and source both name posts.
EdgeRefsExist(rows, e) ==
    /\ \E q \in rows : q.board = e.message_board /\ q.id = e.message_id
    /\ \E q \in rows : q.board = e.reply_board /\ q.id = e.reply_id

\* ------------------------------------------------------- Post sequencer
\* (mutant) the counter UPDATE handed to the pool: it commits on its own.
CounterExecutor_Pool == "pool"

\* Which connection runs the counter UPDATE: the transaction (`&mut tx`).
CounterExecutor == "tx"

\* (mutant) RETURNING the value without the increment.
NextId_Stale(b) == next_post_id[b]

\* UPDATE boards SET next_post_id = next_post_id + 1 ... RETURNING next_post_id
NextId(b) == next_post_id[b] + 1

\* The largest i32.
I32Max == 2147483647

\* The digit strings the texts carry after >>: two ids, an id written with a
\* leading zero, and I32Max + 1.
DigitStrings == {<<1>>, <<2>>, <<0, 1>>, <<2, 1, 4, 7, 4, 8, 3, 6, 4, 8>>}

\* str::parse::<i32>() on a string of digits: Err when the value passes I32Max.
RECURSIVE ParseFrom(_, _, _)
ParseFrom(d, i, acc) ==
    IF i > Len(d) THEN [ok |-> TRUE, v |-> acc]
    ELSE IF acc > (I32Max - d[i]) \div 10
         THEN [ok |-> FALSE, v |-> 0]
         ELSE ParseFrom(d, i + 1, acc * 10 + d[i])

ParseI32(d) == ParseFrom(d, 1, 0)

\* The digit strings c[1].parse::<i32>() fails on.
Oversized == {d \in DigitStrings : ~ParseI32(d).ok}

\* The markers REPLY_RE captures, resolved by
\* SELECT id, thread FROM posts WHERE id = ANY($1) AND board = $2.
Resolved(content, b) ==
    IF ~content.some THEN {}
    ELSE {[id |-> q.id, thread |-> q.thread] :
            q \in {r \in posts : /\ r.board = b
                                  /\ \E i \in DOMAIN content.body :
                                        content.body[i] = r.id}}

ImageBytes == {"img", "junk"}

\* md5::compute(buf) as a Uuid.
Md5(buf) == IF buf = "img" THEN "h_img" ELSE "h_junk"

\* image::load_from_memory(buf) succeeds.
Decodable(buf) == buf = "img"

\* The hashes an Image value can carry: those from_buf has returned Ok for.
ImageRefs == {Md5(buf) : buf \in {c \in ImageBytes : Decodable(c)}}

\* The row create_thread inserts: thread = $1 = id, image = image.hash().
ThreadRow(b, id, image) ==
    [board |-> b, id |-> id, thread |-> id, image |-> image]

\* The row create inserts: thread = the supplied thread,
\* image = image.map(|i| i.hash()).
ReplyRow(b, id, t, image) ==
    [board |-> b, id |-> id, thread |-> t, image |-> image]

\* The edge create_thread inserts: VALUES ($1, $2, $3, $2, $3).
ThreadEdge(m, b, id) == [message_id |-> m, message_board |-> b,
                         reply_id |-> id, reply_board |-> b, reply_thread |-> id]

\* (mutant) the ids of the message and of the reply bound the other way round.
ReplyEdge_Swapped(m, b, id, t) ==
    [message_id |-> id, message_board |-> b,
     reply_id |-> m, reply_board |-> b, reply_thread |-> t]

\* The edge create inserts: VALUES ($1, $2, $3, $2, $4).
ReplyEdge(m, b, id, t) == [message_id |-> m, message_board |-> b,
                           reply_id |-> id, reply_board |-> b, reply_thread |-> t]

\* Ids handed out so far: the committed counters plus the open increments.
RECURSIVE SumCounters(_)
SumCounters(bs) ==
    IF bs = {} THEN 0
    ELSE LET b == CHOOSE c \in bs : TRUE IN
         next_post_id[b] + (IF lock[b] = NoProc THEN 0 ELSE 1)
           + SumCounters(bs \ {b})

InFlight == {"begin", "update", "html", "insert", "replies"}

NoCall == [op |-> "none", board |-> "a", thread |-> 0, image |-> "none"]

\* Dropping the transaction: its writes are discarded and its lock released.
\* `kind` is the outcome handed to the caller.
Rollback(p, kind) ==
    /\ lock' = [b \in BoardNames |-> IF lock[b] = p THEN NoProc ELSE lock[b]]
    /\ txPosts' = [txPosts EXCEPT ![p] = {}]
    /\ failedId' = IF per_board_id[p] # 0
                   THEN [failedId EXCEPT ![call[p].board] = per_board_id[p]]
                   ELSE failedId
    /\ per_board_id' = [per_board_id EXCEPT ![p] = 0]
    /\ replied' = [replied EXCEPT ![p] = {}]
    /\ call' = [call EXCEPT ![p] = NoCall]
    /\ pc' = [pc EXCEPT ![p] = "idle"]
    /\ result' = [result EXCEPT ![p] = kind]

\* A call keeps the connection of its transaction from pool.begin() until
\* the transaction is committed or dropped.
Holding == {"update", "html", "insert", "replies"}

\* Connections of the pool no transaction holds.  A statement executed on
\* the pool takes one of them and gives it back when it has run.
Idle == max_connections - Cardinality({q \in Procs : pc[q] \in Holding})

\* let mut tx = pool.begin().await?;
Begin(p) ==
    /\ UNCHANGED gateVars
    /\ pc[p] = "begin"
    /\ Idle > 0
    /\ pc' = [pc EXCEPT ![p] = "update"]
    /\ UNCHANGED <<boards, next_post_id, posts, replies, lock, txPosts, call,
                   per_board_id, replied, result, returned, failedId>>

\* The counter UPDATE.  It waits while another transaction holds the board
\* row; on a board that does not exist fetch_one yields RowNotFound.
UpdateCounter(p) ==
    /\ UNCHANGED gateVars
    /\ pc[p] = "update"
    /\ LET b == call[p].board IN
       IF b \notin boards
       THEN /\ Rollback(p, "Db")
            /\ UNCHANGED <<boards, next_post_id, posts, replies, returned>>
       ELSE /\ lock[b] = NoProc
            /\ SumCounters(BoardNames) < MaxPosts
            /\ per_board_id' = [per_board_id EXCEPT ![p] = NextId(b)]
            /\ IF CounterExecutor = "tx"
               THEN /\ lock' = [lock EXCEPT ![b] = p]
                    /\ UNCHANGED next_post_id
               ELSE /\ next_post_id' = [next_post_id EXCEPT ![b] = NextId(b)]
                    /\ UNCHANGED lock
            /\ pc' = [pc EXCEPT ![p] = "html"]
            /\ UNCHANGED <<boards, posts, replies, txPosts, call, replied, result,
                           returned, failedId>>

\* Post::html_body(content, board, pool): reads committed rows on the pool.
\* The argument `content` is first read here: its markers that fit an i32
\* and, possibly, one that does not, on which c[1].parse().unwrap() panics;
\* the unwinding drops the transaction.
HtmlBody(p) ==
    /\ UNCHANGED gateVars
    /\ pc[p] = "html"
    /\ \E content \in Contents, over \in {<<>>} \cup Oversized :
         IF content.some /\ over # <<>>
         THEN /\ Rollback(p, "Panic")
              /\ UNCHANGED <<boards, next_post_id, posts, replies, returned>>
         ELSE /\ content.some => Idle > 0
              /\ replied' = [replied EXCEPT ![p] = Resolved(content, call[p].board)]
              /\ pc' = [pc EXCEPT ![p] = "insert"]
              /\ UNCHANGED <<boards, next_post_id, posts, replies, lock, txPosts,
                             call, per_board_id, result, returned, failedId>>

\* The post INSERT of create_thread, run on the transaction.
InsertThread(p) ==
    /\ UNCHANGED gateVars
    /\ pc[p] = "insert"
    /\ call[p].op = "create_thread"
    /\ LET b == call[p].board
           id == per_board_id[p] IN
       IF PostKeyFree(posts \cup txPosts[p], b, id)
       THEN /\ txPosts' = [txPosts EXCEPT ![p] = {ThreadRow(b, id, call[p].image)}]
            /\ pc' = [pc EXCEPT ![p] = "replies"]
            /\ UNCHANGED <<boards, next_post_id, posts, replies, lock, call,
                           per_board_id, replied, result, returned, failedId>>
       ELSE /\ Rollback(p, "Db")
            /\ UNCHANGED <<boards, next_post_id, posts, replies, returned>>

\* The post INSERT of create, run on the pool: it commits on its own.
\* The argument `thread` is first read here.
InsertPost(p) ==
    /\ UNCHANGED gateVars
    /\ pc[p] = "insert"
    /\ call[p].op = "create"
    /\ Idle > 0
    /\ \E t \in PostIds :
         LET b == call[p].board
             id == per_board_id[p] IN
         IF /\ PostKeyFree(posts, b, id)
            /\ ThreadExists(posts \cup {ReplyRow(b, id, t, call[p].image)}, b, t)
         THEN /\ posts' = posts \cup {ReplyRow(b, id, t, call[p].image)}
              /\ call' = [call EXCEPT ![p].thread = t]
              /\ pc' = [pc EXCEPT ![p] = "replies"]
              /\ UNCHANGED <<boards, next_post_id, replies, lock, txPosts,
                             per_board_id, replied, result, returned, failedId>>
         ELSE /\ Rollback(p, "Db")
              /\ UNCHANGED <<boards, next_post_id, posts, replies, returned>>

\* One turn of `for message in replied`: the edge INSERT runs on the pool.
InsertReply(p) ==
    /\ UNCHANGED gateVars
    /\ pc[p] = "replies"
    /\ Idle > 0
    /\ \E m \in replied[p] :
         LET b == call[p].board
             id == per_board_id[p]
             e == IF call[p].op = "create_thread" THEN ThreadEdge(m.id, b, id)
                  ELSE ReplyEdge(m.id, b, id, call[p].thread) IN
         IF EdgeRefsExist(posts, e)
         THEN /\ replies' = replies \cup {e}
              /\ replied' = [replied EXCEPT ![p] = replied[p] \ {m}]
              /\ UNCHANGED <<boards, next_post_id, posts, lock, txPosts, pc, call,
                             per_board_id, result, returned, failedId>>
         ELSE /\ Rollback(p, "Db")
              /\ UNCHANGED <<boards, next_post_id, posts, replies, returned>>

\* tx.commit().await?; Ok(per_board_id)
Commit(p) ==
    /\ UNCHANGED gateVars
    /\ pc[p] = "replies"
    /\ replied[p] = {}
    /\ LET b == call[p].board IN
       /\ next_post_id' = IF lock[b] = p
                          THEN [next_post_id EXCEPT ![b] = per_board_id[p]]
                          ELSE next_post_id
       /\ posts' = posts \cup txPosts[p]
       /\ lock' = [c \in BoardNames |-> IF lock[c] = p THEN NoProc ELSE lock[c]]
       /\ txPosts' = [txPosts EXCEPT ![p] = {}]
       /\ returned' = [returned EXCEPT ![b] = Append(@, per_board_id[p])]
       /\ failedId' = [failedId EXCEPT ![b] = 0]
       /\ result' = [result EXCEPT ![p] = "Ok"]
       /\ per_board_id' = [per_board_id EXCEPT ![p] = 0]
       /\ call' = [call EXCEPT ![p] = NoCall]
       /\ pc' = [pc EXCEPT ![p] = "idle"]
       /\ UNCHANGED <<boards, replies, replied>>

\* Any awaited statement may return a storage error; `?` returns it and drops tx.
StorageFailure(p) ==
    /\ UNCHANGED gateVars
    /\ pc[p] \in InFlight
    /\ Rollback(p, "Db")
    /\ UNCHANGED <<boards, next_post_id, posts, replies, returned>>

\* The statement p is about to run needs a connection of the pool.
NeedsPool(p) ==
    \/ pc[p] \in {"begin", "html"}
    \/ pc[p] = "insert" /\ call[p].op = "create"
    \/ pc[p] = "replies" /\ replied[p] # {}

\* Waiting for a connection ends with Err(PoolTimedOut) once the pool's
\* acquire timeout has passed; `?` returns it as Error::Db and drops tx.
AcquireTimeout(p) ==
    /\ UNCHANGED gateVars
    /\ NeedsPool(p)
    /\ Idle = 0
    /\ Rollback(p, "Db")
    /\ UNCHANGED <<boards, next_post_id, posts, replies, returned>>

\* The request future is dropped at an await (client disconnect): tx is
\* dropped with it and nobody receives an outcome.
Cancel(p) ==
    /\ UNCHANGED gateVars
    /\ pc[p] \in InFlight
    /\ Rollback(p, "None")
    /\ UNCHANGED <<boards, next_post_id, posts, replies, returned>>

\* A caller invokes Post::create_thread(board, .., image, pool).
CallCreateThread(p) ==
    /\ UNCHANGED gateVars
    /\ pc[p] = "idle"
    /\ \E b \in boards \cup {"x"}, image \in ImageRefs :
         call' = [call EXCEPT ![p] = [op |-> "create_thread", board |-> b,
                                      thread |-> 0, image |-> image]]
    /\ pc' = [pc EXCEPT ![p] = "begin"]
    /\ result' = [result EXCEPT ![p] = "None"]
    /\ UNCHANGED <<boards, next_post_id, posts, replies, lock, txPosts,
                   per_board_id, replied, returned, failedId>>

\* A caller invokes Post::create(board, thread, .., image, pool), here with
\* image = Some(..); replies without an image come through create_post.
CallCreate(p) ==
    /\ UNCHANGED gateVars
    /\ pc[p] = "idle"
    /\ \E b \in boards \cup {"x"}, image \in ImageRefs :
         call' = [call EXCEPT ![p] = [op |-> "create", board |-> b, thread |-> 0,
                                      image |-> image]]
    /\ pc' = [pc EXCEPT ![p] = "begin"]
    /\ result' = [result EXCEPT ![p] = "None"]
    /\ UNCHANGED <<boards, next_post_id, posts, replies, lock, txPosts,
                   per_board_id, replied, returned, failedId>>

\* ------------------------------------------------------------- Captcha
\* Characters of solutions and answers.
Chars == {"a", "A", "b"}
Strs(n) == [1..n -> Chars]
Answers == UNION {Strs(n) : n \in 1..MaxChars}

Lower(c) == IF c = "A" THEN "a" ELSE c

\* (mutant) a comparison that keeps the letter case.
ToLowercase_Keep(s) == s

\* str::to_lowercase
ToLowercase(s) == [i \in DOMAIN s |-> Lower(s[i])]

\* (mutant) a SELECT in place of the DELETE: the row stays.
RowsAfterDelete_Kept(id) == captchas

\* DELETE FROM captchas WHERE id = $1: the rows left.
RowsAfterDelete(id) == {c \in captchas : c.id # id}

NoRow == [some |-> FALSE, solution |-> <<>>]

\* .. RETURNING solution, fetch_optional: the row deleted, if any.
DeletedRow(id) ==
    IF \E c \in captchas : c.id = id
    THEN [some |-> TRUE, solution |-> (CHOOSE c \in captchas : c.id = id).solution]
    ELSE NoRow

\* The value verify returns: captcha.solution == answer.to_lowercase(), or
\* false without a row.
VerifyValue(row, answer) ==
    IF row.some THEN row.solution = ToLowercase(answer) ELSE FALSE

\* The answer equals the solution up to letter case.
SameIgnoringCase(s, t) ==
    /\ Len(s) = Len(t)
    /\ \A i \in DOMAIN s : Lower(s[i]) = Lower(t[i])

NoVerify == [id |-> -1, late |-> FALSE, from |-> "none"]
NotVerified == [value |-> "none", correct |-> FALSE]

\* Captcha::new: a fresh id (Uuid::new_v4) and the lowercased characters.
CaptchaNew ==
    /\ UNCHANGED <<queryVars, poolVars>>
    /\ issued < MaxCaptchas
    /\ \E raw \in Strs(MaxChars) :
         captchas' = captchas \cup {[id |-> issued + 1,
                                     solution |-> ToLowercase(raw)]}
    /\ issued' = issued + 1
    /\ UNCHANGED <<consumed, vcall, fetched, verified>>
    /\ UNCHANGED <<postVars, routeVars>>

\* A caller invokes Captcha::verify(id, answer, pool) with the id of an
\* issued challenge or with 0, an id no challenge carries (Uuid::new_v4 does
\* not draw an id a caller presented before).
VerifyCall(p) ==
    /\ UNCHANGED <<queryVars, poolVars>>
    /\ UNCHANGED routeVars
    /\ pc[p] = "idle"
    /\ \E id \in 0..issued :
         vcall' = [vcall EXCEPT ![p] = [id |-> id, late |-> id \in consumed,
                                        from |-> "direct"]]
    /\ verified' = [verified EXCEPT ![p] = NotVerified]
    /\ pc' = [pc EXCEPT ![p] = "verify_delete"]
    /\ UNCHANGED <<captchas, issued, consumed, fetched, result>>
    /\ UNCHANGED seqVars

\* The DELETE .. RETURNING statement, one atomic statement on the pool.
VerifyDelete(p) ==
    /\ UNCHANGED <<queryVars, poolVars>>
    /\ UNCHANGED routeVars
    /\ pc[p] = "verify_delete"
    /\ fetched' = [fetched EXCEPT ![p] = DeletedRow(vcall[p].id)]
    /\ captchas' = RowsAfterDelete(vcall[p].id)
    /\ pc' = [pc EXCEPT ![p] = "verify_return"]
    /\ UNCHANGED <<issued, consumed, vcall, verified, result>>
    /\ UNCHANGED seqVars

\* (mutant) the handler goes on whatever verification returned.
Rejects_Never(value) == FALSE

\* if !Captcha::verify(..)? { return Err(MissingOrInvalidCaptchaID) }
Rejects(value) == ~value

\* The comparison and the return.  The argument `answer` is first read here.
\* Called from create_post, `if !verify(..) { return Err(..) }` follows.
VerifyReturn(p) ==
    /\ UNCHANGED <<queryVars, poolVars>>
    /\ pc[p] = "verify_return"
    /\ \E answer \in Answers :
         LET value == VerifyValue(fetched[p], answer)
             outcome == [value |-> IF value THEN "true" ELSE "false",
                         correct |-> /\ fetched[p].some
                                     /\ SameIgnoringCase(answer, fetched[p].solution)]
         IN IF vcall[p].from = "direct"
            THEN /\ verified' = [verified EXCEPT ![p] = outcome]
                 /\ pc' = [pc EXCEPT ![p] = "idle"]
                 /\ UNCHANGED <<result, vcall>>
            ELSE IF Rejects(value)
                 THEN /\ verified' = [verified EXCEPT ![p] = outcome]
                      /\ pc' = [pc EXCEPT ![p] = "idle"]
                      /\ result' = [result EXCEPT ![p] = "MissingOrInvalidCaptchaID"]
                      /\ UNCHANGED vcall
                 ELSE /\ verified' = [verified EXCEPT ![p] = outcome]
                      /\ vcall' = [vcall EXCEPT ![p] = NoVerify]
                      /\ pc' = [pc EXCEPT ![p] = "image"]
                      /\ UNCHANGED result
    /\ consumed' = consumed \cup {vcall[p].id}
    /\ fetched' = [fetched EXCEPT ![p] = NoRow]
    /\ UNCHANGED <<captchas, issued>>
    /\ UNCHANGED <<seqVars, routeVars>>

\* The DELETE fails with a storage error: `?` returns Err(Error::Db).
VerifyFails(p) ==
    /\ UNCHANGED <<queryVars, poolVars>>
    /\ UNCHANGED routeVars
    /\ pc[p] = "verify_delete"
    /\ verified' = [verified EXCEPT ![p] = [value |-> "error", correct |-> FALSE]]
    /\ result' = IF vcall[p].from = "direct" THEN result
                 ELSE [result EXCEPT ![p] = "Db"]
    /\ vcall' = IF vcall[p].from = "direct"
                THEN [vcall EXCEPT ![p] = NoVerify]
                ELSE vcall
    /\ pc' = [pc EXCEPT ![p] = "idle"]
    /\ UNCHANGED <<captchas, issued, consumed, fetched>>
    /\ UNCHANGED seqVars

InitCaptcha ==
    /\ captchas = {}
    /\ issued = 0
    /\ consumed = {}
    /\ vcall = [p \in Procs |-> NoVerify]
    /\ fetched = [p \in Procs |-> NoRow]
    /\ verified = [p \in Procs |-> NotVerified]

\* ---------------------------------------------------------- Abuse gate
Ips == {1, 2}

RECURSIVE Pow2(_)
Pow2(n) == IF n = 0 THEN 1 ELSE 2 * Pow2(n - 1)

\* $1 <<= ip: the address lies in the network, compared on the network's
\* prefix bits.
ContainedOrEqual(ip, net) ==
    ip \div Pow2(AddrBits - net.prefix) = net.addr \div Pow2(AddrBits - net.prefix)

\* (mutant) the query without its expiry condition.
BanRows_Forever(ip) == {b \in bans : ContainedOrEqual(ip, b.net)}

\* WHERE $1 <<= ip AND created_at + duration > NOW()
BanRows(ip) ==
    {b \in bans : ContainedOrEqual(ip, b.net) /\ b.created_at + b.duration > now}

\* (mutant) the query without its ORDER BY: any matching row may come first.
FirstBanRows_Unordered(ip) == BanRows(ip)

\* ORDER BY created_at DESC, fetch_optional: the rows that may come first.
FirstBanRows(ip) ==
    {b \in BanRows(ip) : \A c \in BanRows(ip) : c.created_at <= b.created_at}

\* ---------------------------------------------------------- Image store

ImageSteps == {"img_select", "img_file", "img_decode", "img_thumb", "img_insert"}

NoImageCall == [buf |-> "none", from |-> "none", ret |-> "none", fault |-> FALSE]

\* (mutant) the existence query that never finds the record.
Exists_Never(hash) == FALSE

\* SELECT CASE WHEN EXISTS (SELECT hash FROM images WHERE hash = $1) ..
Exists(hash) == hash \in images

\* (mutant) the thumbnail file is not written.
ThumbsAfterWrite_Skipped(hash) == thumbs

\* File::create("./thumbs/<hash>.png") and write_all.
ThumbsAfterWrite(hash) == thumbs \cup {hash}

\* Table images: hash is the key, one record per digest.
ImageKeyFree(hash) == hash \notin images

\* Ok(Image { hash }): the value goes back to the caller, which for
\* create_post is the handler on its way to the dispatch.
ImageOk(p, hash) ==
    IF icall[p].from = "direct"
    THEN /\ icall' = [icall EXCEPT ![p].ret = hash]
         /\ pc' = [pc EXCEPT ![p] = "idle"]
         /\ result' = [result EXCEPT ![p] = "Ok"]
         /\ UNCHANGED req
    ELSE /\ icall' = [icall EXCEPT ![p] = NoImageCall]
         /\ pc' = [pc EXCEPT ![p] = "dispatch"]
         /\ req' = [req EXCEPT ![p].image = hash]
         /\ UNCHANGED result

\* Err(..)?: the error goes back to the caller, and through create_post.
\* `fault` tells an error of the environment from one from_buf raised on
\* its own data.
ImageErr(p, kind, fault) ==
    /\ icall' = IF icall[p].from = "direct"
                THEN [icall EXCEPT ![p].fault = fault]
                ELSE [icall EXCEPT ![p] = NoImageCall]
    /\ pc' = [pc EXCEPT ![p] = "idle"]
    /\ result' = [result EXCEPT ![p] = kind]
    /\ UNCHANGED req

\* A caller invokes Image::from_buf(buf, pool).
ImageCall(p) ==
    /\ UNCHANGED <<queryVars, poolVars>>
    /\ pc[p] = "idle"
    /\ \E buf \in ImageBytes :
         icall' = [icall EXCEPT ![p] = [NoImageCall EXCEPT !.buf = buf,
                                                           !.from = "direct"]]
    /\ pc' = [pc EXCEPT ![p] = "img_select"]
    /\ result' = [result EXCEPT ![p] = "None"]
    /\ UNCHANGED <<bans, now, images, files, thumbs, req>>
    /\ UNCHANGED <<seqVars, captchaVars>>

\* The existence query and `if maybe { Ok(Image { hash }) }`.
ImageSelect(p) ==
    /\ UNCHANGED <<queryVars, poolVars>>
    /\ pc[p] = "img_select"
    /\ IF Exists(Md5(icall[p].buf))
       THEN ImageOk(p, Md5(icall[p].buf))
       ELSE /\ pc' = [pc EXCEPT ![p] = "img_file"]
            /\ UNCHANGED <<icall, req, result>>
    /\ UNCHANGED <<bans, now, images, files, thumbs>>
    /\ UNCHANGED <<seqVars, captchaVars>>

\* File::create("./images/<hash>") and write_all(buf).
ImageFile(p) ==
    /\ UNCHANGED <<queryVars, poolVars>>
    /\ pc[p] = "img_file"
    /\ files' = files \cup {Md5(icall[p].buf)}
    /\ pc' = [pc EXCEPT ![p] = "img_decode"]
    /\ UNCHANGED <<bans, now, images, thumbs, req, icall>>
    /\ UNCHANGED <<seqVars, captchaVars, result>>

\* image::load_from_memory(buf)?, resize and PNG encoding.
ImageDecode(p) ==
    /\ UNCHANGED <<queryVars, poolVars>>
    /\ pc[p] = "img_decode"
    /\ IF Decodable(icall[p].buf)
       THEN /\ pc' = [pc EXCEPT ![p] = "img_thumb"]
            /\ UNCHANGED <<req, result, icall>>
       ELSE ImageErr(p, "Image", FALSE)
    /\ UNCHANGED <<bans, now, images, files, thumbs>>
    /\ UNCHANGED <<seqVars, captchaVars>>

\* The thumbnail file is created and written.
ImageThumb(p) ==
    /\ UNCHANGED <<queryVars, poolVars>>
    /\ pc[p] = "img_thumb"
    /\ thumbs' = ThumbsAfterWrite(Md5(icall[p].buf))
    /\ pc' = [pc EXCEPT ![p] = "img_insert"]
    /\ UNCHANGED <<bans, now, images, files, req, icall>>
    /\ UNCHANGED <<seqVars, captchaVars, result>>

\* INSERT INTO images VALUES ($1), then Ok(Image { hash }).
ImageInsert(p) ==
    /\ UNCHANGED <<queryVars, poolVars>>
    /\ pc[p] = "img_insert"
    /\ LET hash == Md5(icall[p].buf) IN
       IF ImageKeyFree(hash)
       THEN /\ images' = images \cup {hash}
            /\ ImageOk(p, hash)
       ELSE /\ ImageErr(p, "Db", FALSE)
            /\ UNCHANGED images
    /\ UNCHANGED <<bans, now, files, thumbs>>
    /\ UNCHANGED <<seqVars, captchaVars>>

\* A query or a file operation of from_buf fails, or the call is dropped or
\* the process stops, before the step that was next.
ImageFails(p) ==
    /\ UNCHANGED <<queryVars, poolVars>>
    /\ pc[p] \in ImageSteps
    /\ \E kind \in {"Io", "Db", "None"} :
         /\ kind = "Io" => pc[p] \in {"img_file", "img_thumb"}
         /\ kind = "Db" => pc[p] \in {"img_select", "img_insert"}
         /\ ImageErr(p, kind, TRUE)
    /\ UNCHANGED <<bans, now, images, files, thumbs>>
    /\ UNCHANGED <<seqVars, captchaVars>>

ImageStep(p) ==
    \/ ImageSelect(p) \/ ImageFile(p) \/ ImageDecode(p) \/ ImageThumb(p)
    \/ ImageInsert(p) \/ ImageFails(p)

\* ---------------------------------------------------------- create_post
\* create_post served by one worker, with page views issuing challenges.
RouteProcs == {"r1"}

NoReq == [ip |-> 0, cookie |-> "unread", image |-> "none", thread |-> "unread",
          reason |-> "", again |-> FALSE]

\* (mutant) the handler takes every request as carrying an image.
HasImage_Always(image) == TRUE

\* if let Some(image) = image { image } else { return Err(MissingImage) }
HasImage(image) == image # "none"


\* A POST /submit arrives from address ip.
Request(p) ==
    /\ UNCHANGED <<queryVars, poolVars>>
    /\ pc[p] = "idle"
    /\ \E ip \in Ips : req' = [req EXCEPT ![p] = [NoReq EXCEPT !.ip = ip]]
    /\ result' = [result EXCEPT ![p] = "None"]
    /\ pc' = [pc EXCEPT ![p] = "guard"]
    /\ vcall' = [vcall EXCEPT ![p] = NoVerify]
    /\ verified' = [verified EXCEPT ![p] = NotVerified]
    /\ UNCHANGED <<captchas, issued, consumed, fetched>>
    /\ UNCHANGED <<bans, now, images, files, thumbs, icall>>
    /\ UNCHANGED seqVars

\* The requester sends the request that was answered Banned once more.
Resubmit(p) ==
    /\ UNCHANGED <<queryVars, poolVars>>
    /\ pc[p] = "idle"
    /\ result[p] = "Banned"
    /\ req' = [req EXCEPT ![p].again = TRUE, ![p].reason = "",
                          ![p].cookie = "unread", ![p].thread = "unread"]
    /\ result' = [result EXCEPT ![p] = "None"]
    /\ pc' = [pc EXCEPT ![p] = "guard"]
    /\ vcall' = [vcall EXCEPT ![p] = NoVerify]
    /\ verified' = [verified EXCEPT ![p] = NotVerified]
    /\ UNCHANGED <<captchas, issued, consumed, fetched>>
    /\ UNCHANGED <<bans, now, images, files, thumbs, icall>>
    /\ UNCHANGED seqVars

\* NotBanned::from_request, the guard that runs before the handler body.
Guard(p) ==
    /\ UNCHANGED <<queryVars, poolVars>>
    /\ pc[p] = "guard"
    /\ IF BanRows(req[p].ip) = {}
       THEN /\ pc' = [pc EXCEPT ![p] = "cookie"]
            /\ UNCHANGED <<result, req>>
       ELSE /\ \E b \in FirstBanRows(req[p].ip) :
                 req' = [req EXCEPT ![p].reason = b.reason]
            /\ result' = [result EXCEPT ![p] = "Banned"]
            /\ pc' = [pc EXCEPT ![p] = "idle"]
    /\ UNCHANGED <<bans, now, images, files, thumbs, icall>>
    /\ UNCHANGED <<seqVars, captchaVars>>

\* The ban query fails: Outcome::Failure(InternalServerError, Error::Db).
GuardFails(p) ==
    /\ UNCHANGED <<queryVars, poolVars>>
    /\ pc[p] = "guard"
    /\ result' = [result EXCEPT ![p] = "Db"]
    /\ pc' = [pc EXCEPT ![p] = "idle"]
    /\ UNCHANGED routeVars
    /\ UNCHANGED <<seqVars, captchaVars>>

\* The captcha_id cookie is read and parsed, form.captcha() is unwrapped and
\* Captcha::verify is called.  The cookie and the captcha field are first
\* read here; 0 is a well-formed id no challenge carries.
Cookie(p) ==
    /\ UNCHANGED <<queryVars, poolVars>>
    /\ pc[p] = "cookie"
    /\ \E cookie \in {"absent", "unparsable", "id"}, id \in 0..issued,
          answered \in BOOLEAN :
         /\ req' = [req EXCEPT ![p].cookie = cookie]
         /\ IF cookie \in {"absent", "unparsable"}
            THEN /\ result' = [result EXCEPT ![p] = "MissingOrInvalidCaptchaID"]
                 /\ pc' = [pc EXCEPT ![p] = "idle"]
                 /\ UNCHANGED <<vcall, verified>>
            ELSE IF ~answered
                 THEN /\ result' = [result EXCEPT ![p] = "Panic"]
                      /\ pc' = [pc EXCEPT ![p] = "idle"]
                      /\ vcall' = [vcall EXCEPT ![p] =
                                     [id |-> id, late |-> id \in consumed,
                                      from |-> "create_post"]]
                      /\ UNCHANGED verified
                 ELSE /\ vcall' = [vcall EXCEPT ![p] =
                                     [id |-> id, late |-> id \in consumed,
                                      from |-> "create_post"]]
                      /\ verified' = [verified EXCEPT ![p] = NotVerified]
                      /\ pc' = [pc EXCEPT ![p] = "verify_delete"]
                      /\ UNCHANGED result
    /\ UNCHANGED <<captchas, issued, consumed, fetched>>
    /\ UNCHANGED <<bans, now, images, files, thumbs, icall>>
    /\ UNCHANGED seqVars

\* if let Some(file) = &form.image { Some(Image::from_buf(file, pool)?) }
\* form.image is first read here.
StoreImage(p) ==
    /\ UNCHANGED <<queryVars, poolVars>>
    /\ pc[p] = "image"
    /\ \E file \in {"none"} \cup ImageBytes :
         IF file = "none"
         THEN /\ pc' = [pc EXCEPT ![p] = "dispatch"]
              /\ UNCHANGED icall
         ELSE /\ pc' = [pc EXCEPT ![p] = "img_select"]
              /\ icall' = [icall EXCEPT ![p] =
                             [NoImageCall EXCEPT !.buf = file,
                                                 !.from = "create_post"]]
    /\ UNCHANGED <<bans, now, images, files, thumbs, req>>
    /\ UNCHANGED <<seqVars, captchaVars, result>>

\* The branch on form.thread: Post::create for a reply, Post::create_thread
\* (or MissingImage) for a new thread.  form.board and form.thread are
\* first read here.
Dispatch(p) ==
    /\ UNCHANGED <<queryVars, poolVars>>
    /\ pc[p] = "dispatch"
    /\ \E b \in boards \cup {"x"}, thread \in {"some", "none"} :
         /\ req' = [req EXCEPT ![p].thread = thread]
         /\ IF thread = "some"
            THEN /\ call' = [call EXCEPT ![p] =
                               [op |-> "create", board |-> b, thread |-> 0,
                                image |-> req[p].image]]
                 /\ pc' = [pc EXCEPT ![p] = "begin"]
                 /\ UNCHANGED result
            ELSE IF HasImage(req[p].image)
                 THEN /\ call' = [call EXCEPT ![p] =
                                    [op |-> "create_thread", board |-> b,
                                     thread |-> 0, image |-> req[p].image]]
                      /\ pc' = [pc EXCEPT ![p] = "begin"]
                      /\ UNCHANGED result
                 ELSE /\ result' = [result EXCEPT ![p] = "MissingImage"]
                      /\ pc' = [pc EXCEPT ![p] = "idle"]
                      /\ UNCHANGED call
    /\ UNCHANGED <<boards, next_post_id, posts, replies, lock, txPosts,
                   per_board_id, replied, returned, failedId>>
    /\ UNCHANGED <<bans, now, images, files, thumbs, icall>>
    /\ UNCHANGED captchaVars

\* The database clock advances.
Tick ==
    /\ UNCHANGED <<queryVars, poolVars>>
    /\ now < MaxTime
    /\ now' = now + 1
    /\ UNCHANGED <<bans, images, files, thumbs, req, icall>>
    /\ UNCHANGED <<postVars, captchaVars>>

\* The bans in force: a network of two addresses banned at 0 until the last
\* instant, and one of its hosts banned again at 1 for one instant.
BanTable ==
    {[net |-> [addr |-> 0, prefix |-> AddrBits - 1], reason |-> "spam",
      created_at |-> 0, duration |-> MaxTime],
     [net |-> [addr |-> 1, prefix |-> AddrBits], reason |-> "flood",
      created_at |-> 1, duration |-> 1]}

InitRoute ==
    /\ bans = BanTable
    /\ now = 1
    /\ images = {}
    /\ files = {}
    /\ thumbs = {}
    /\ req = [p \in Procs |-> NoReq]
    /\ icall = [p \in Procs |-> NoImageCall]

NoQuery == [op |-> "none"]

\* ------------------------------------------------------ Markup renderer
\* The pieces of a text: plain words, the marker >>digits, and the
\* characters &gt;&gt;digits typed as they stand.
Tokens ==
    {[k |-> "word", d |-> <<>>], [k |-> "&gt;&gt;", d |-> <<1>>]}
       \cup {[k |-> ">>", d |-> d] : d \in DigitStrings}

Texts == UNION {[1..n -> Tokens] : n \in 0..MaxTokens}

\* maud's escaping inside html!: > becomes &gt; and & becomes &amp;.
Escape(tok) ==
    CASE tok.k = ">>" -> [tok EXCEPT !.k = "&gt;&gt;"]
      [] tok.k = "&gt;&gt;" -> [tok EXCEPT !.k = "&amp;gt;&amp;gt;"]
      [] OTHER -> tok

\* REPLY_RE = &gt;&gt;(\d+) matches the escaped piece.
IsCapture(tok) == tok.k = "&gt;&gt;"

Placeholder == <<[k |-> "post-content", d |-> <<>>]>>

Panicked == [panic |-> TRUE, html |-> <<>>, ids |-> {}]

\* Post::html_body(body, board, pool) over the committed rows of posts.
\* c[1].parse().unwrap() panics on the first capture that does not parse.
html_body(body, board) ==
    IF ~body.some THEN [panic |-> FALSE, html |-> Placeholder, ids |-> {}]
    ELSE
      LET esc == [i \in DOMAIN body.body |-> Escape(body.body[i])]
          caps == {i \in DOMAIN esc : IsCapture(esc[i])}
      IN IF \E i \in caps : ~ParseI32(esc[i].d).ok THEN Panicked
         ELSE
           LET captured == {ParseI32(esc[i].d).v : i \in caps}
               rows == {[id |-> r.id, thread |-> r.thread] :
                          r \in {q \in posts : q.id \in captured /\ q.board = board}}
               Link(i) ==
                   LET id == ParseI32(esc[i].d).v IN
                   IF \E r \in rows : r.id = id
                   THEN [k |-> "a", board |-> board,
                         thread |-> (CHOOSE r \in rows : r.id = id).thread,
                         anchor |-> esc[i].d, d |-> esc[i].d]
                   ELSE esc[i]
           IN [panic |-> FALSE,
               html |-> [i \in DOMAIN esc |-> IF i \in caps THEN Link(i) ELSE esc[i]],
               ids |-> {r.id : r \in rows}]

\* A caller renders a text for a board.
Render ==
    /\ \E b \in BoardNames, body \in {None} \cup {Some(t) : t \in Texts} :
         /\ rin' = [op |-> "html_body", board |-> b, body |-> body]
         /\ rout' = [op |-> "html_body", val |-> html_body(body, b)]
    /\ UNCHANGED <<postVars, captchaVars, routeVars, poolVars>>

\* Tables of posts on two boards whose ids overlap.
RenderRows ==
    {ThreadRow("a", 1, "h_img"), ReplyRow("a", 2, 1, "none"),
     ThreadRow("x", 1, "h_img"), ReplyRow("x", 2, 1, "none")}

RenderTables ==
    {t \in SUBSET RenderRows : \A r \in t : ThreadExists(t, r.board, r.thread)}

\* ---------------------------------------------------------- Query layer
\* A row of posts with the two columns the listing reads besides its key.
Stamped(row, sage, posted_at) ==
    [board |-> row.board, id |-> row.id, thread |-> row.thread,
     image |-> row.image, sage |-> sage, posted_at |-> posted_at]

RECURSIVE MaxOf(_)
MaxOf(S) ==
    LET x == CHOOSE y \in S : TRUE IN
    IF S = {x} THEN x
    ELSE LET m == MaxOf(S \ {x}) IN IF x > m THEN x ELSE m

\* (mutant) every post of the thread counts for its bump time.
Bumps_All(r) == TRUE

\* WHERE .. (posts.thread = posts.id OR NOT posts.sage)
Bumps(r) == r.thread = r.id \/ ~r.sage

\* WITH threads AS (SELECT DISTINCT ON (posts.thread) posts.thread as id,
\* max(posts.posted_at) as last_post FROM posts WHERE posts.board = $1 AND
\* (..) GROUP BY posts.thread)
ThreadsCte(b) ==
    LET counted == {r \in posts : r.board = b /\ Bumps(r)} IN
    {[id |-> t,
      last_post |-> MaxOf({r.posted_at : r \in {q \in counted : q.thread = t}})] :
       t \in {r.thread : r \in counted}}

\* SELECT posts.* FROM posts LEFT JOIN threads ON posts.thread = threads.id
\* WHERE posts.id = threads.id
Joined(b) ==
    {[post |-> x[1], last_post |-> x[2].last_post] :
       x \in {y \in posts \X ThreadsCte(b) :
                 y[1].thread = y[2].id /\ y[1].id = y[2].id}}

\* ORDER BY threads.last_post DESC: every order of the rows that agrees
\* with it; rows with equal last_post come in any order.
Listings(b) ==
    LET J == Joined(b)
        n == Cardinality(J)
    IN {s \in [1..n -> J] :
          /\ \A i, k \in 1..n : i # k => s[i] # s[k]
          /\ \A i, k \in 1..n : i < k => s[i].last_post >= s[k].last_post}

\* Post::threads_for_board(board, pool).  A read leaves the tables as they
\* are, so the reads of one state of the tables are each taken as the first
\* read since the last commit.
ThreadsForBoard ==
    /\ rin = NoQuery
    /\ \E b \in BoardNames : \E s \in Listings(b) :
         /\ rin' = [op |-> "threads_for_board", board |-> b, table |-> posts]
         /\ rout' = [op |-> "threads_for_board",
                     val |-> [i \in DOMAIN s |-> s[i].post]]
    /\ UNCHANGED <<postVars, captchaVars, routeVars, poolVars>>

\* (mutant) the query without its condition on the board.
ForThreadRows_AnyBoard(b, id) == {r \in posts : r.thread = id}

\* SELECT * FROM posts WHERE thread = $1 AND board = $2
ForThreadRows(b, id) == {r \in posts : r.thread = id /\ r.board = b}

\* Thread ids a reader asks a board for: the ids its counter has handed out
\* and one it has not, which stands for every id without a row.
AskedIds(b) == {id \in PostIds : id <= next_post_id[b] + 1}

\* Post::for_thread(board, id, pool): Err(Error::Db) when the query fails,
\* Err(Error::NotFound) when it returns no row, Ok(rows) otherwise.
ForThread ==
    /\ rin = NoQuery
    /\ \E b \in BoardNames : \E id \in AskedIds(b), fails \in BOOLEAN :
         /\ rin' = [op |-> "for_thread", board |-> b, id |-> id, table |-> posts]
         /\ rout' = [op |-> "for_thread",
                     val |-> IF fails THEN [kind |-> "Db", rows |-> {}]
                             ELSE IF ForThreadRows(b, id) = {}
                                  THEN [kind |-> "NotFound", rows |-> {}]
                                  ELSE [kind |-> "Ok", rows |-> ForThreadRows(b, id)]]
    /\ UNCHANGED <<postVars, captchaVars, routeVars, poolVars>>

\* NOW() at the next statement: the clock reads the same value or a later one.
LaterTimes == {t \in {now, now + 1} : t <= MaxTime}

\* A thread committed by Post::create_thread: posted_at DEFAULTs to NOW().
\* A listing read before is out of date from here on.
ThreadCommitted ==
    /\ SumCounters(BoardNames) < MaxPosts
    /\ \E b \in boards, sage \in BOOLEAN, at \in LaterTimes :
         /\ next_post_id' = [next_post_id EXCEPT ![b] = NextId(b)]
         /\ posts' = posts \cup {Stamped(ThreadRow(b, NextId(b), "h_img"), sage, at)}
         /\ now' = at
    /\ rin' = NoQuery
    /\ rout' = NoQuery
    /\ UNCHANGED <<boards, replies, lock, txPosts, pc, call, per_board_id,
                   replied, result, returned, failedId>>
    /\ UNCHANGED <<captchaVars, bans, images, files, thumbs, req, icall, poolVars>>

\* A reply to a thread committed by Post::create, posted_at = NOW().
ReplyCommitted ==
    /\ SumCounters(BoardNames) < MaxPosts
    /\ \E b \in boards, sage \in BOOLEAN :
         \E t \in {r.id : r \in {q \in posts : q.board = b /\ q.id = q.thread}} :
           \E at \in LaterTimes :
             /\ next_post_id' = [next_post_id EXCEPT ![b] = NextId(b)]
             /\ posts' = posts \cup
                    {Stamped(ReplyRow(b, NextId(b), t, "none"), sage, at)}
             /\ now' = at
    /\ rin' = NoQuery
    /\ rout' = NoQuery
    /\ UNCHANGED <<boards, replies, lock, txPosts, pc, call, per_board_id,
                   replied, result, returned, failedId>>
    /\ UNCHANGED <<captchaVars, bans, images, files, thumbs, req, icall, poolVars>>


\* PgPool::connect builds the pool with the default options.
MaxConnections == 10

InitQuery ==
    /\ rin = NoQuery
    /\ rout = NoQuery
    /\ max_connections = MaxConnections

InitPost ==
    /\ boards = {"a"}
    /\ next_post_id = [b \in BoardNames |-> 0]
    /\ posts = {}
    /\ replies = {}
    /\ lock = [b \in BoardNames |-> NoProc]
    /\ txPosts = [p \in Procs |-> {}]
    /\ pc = [p \in Procs |-> "idle"]
    /\ call = [p \in Procs |-> NoCall]
    /\ per_board_id = [p \in Procs |-> 0]
    /\ replied = [p \in Procs |-> {}]
    /\ result = [p \in Procs |-> "None"]
    /\ returned = [b \in BoardNames |-> <<>>]
    /\ failedId = [b \in BoardNames |-> 0]
    /\ InitCaptcha
    /\ InitRoute
    /\ InitQuery

PostStep(p) ==
    \/ Begin(p) \/ UpdateCounter(p) \/ HtmlBody(p) \/ InsertThread(p)
    \/ InsertPost(p) \/ InsertReply(p) \/ Commit(p) \/ StorageFailure(p)
    \/ Cancel(p)

NextPost == \E p \in Procs : CallCreateThread(p) \/ CallCreate(p) \/ PostStep(p)

SpecPost == InitPost /\ [][NextPost]_vars

NextCaptcha ==
    \/ CaptchaNew
    \/ \E p \in Procs : VerifyCall(p) \/ VerifyDelete(p) \/ VerifyReturn(p)
                          \/ VerifyFails(p)

SpecCaptcha == InitPost /\ [][NextCaptcha]_vars

NextRoute ==
    \/ CaptchaNew
    \/ Tick
    \/ \E p \in RouteProcs :
         \/ Request(p) \/ Resubmit(p) \/ Guard(p) \/ GuardFails(p) \/ Cookie(p)
         \/ VerifyDelete(p) \/ VerifyReturn(p) \/ VerifyFails(p)
         \/ StoreImage(p) \/ ImageStep(p) \/ Dispatch(p) \/ PostStep(p)

SpecRoute == InitPost /\ [][NextRoute]_vars

\* Image::from_buf called by concurrent uploads.
NextImage == \E p \in Procs : ImageCall(p) \/ ImageStep(p)

SpecImage == InitPost /\ [][NextImage]_vars

\* The renderer applied to a text over a table of posts.
InitRender ==
    /\ boards = BoardNames
    /\ next_post_id = [b \in BoardNames |-> 2]
    /\ posts \in RenderTables
    /\ replies = {}
    /\ lock = [b \in BoardNames |-> NoProc]
    /\ txPosts = [p \in Procs |-> {}]
    /\ pc = [p \in Procs |-> "idle"]
    /\ call = [p \in Procs |-> NoCall]
    /\ per_board_id = [p \in Procs |-> 0]
    /\ replied = [p \in Procs |-> {}]
    /\ result = [p \in Procs |-> "None"]
    /\ returned = [b \in BoardNames |-> <<>>]
    /\ failedId = [b \in BoardNames |-> 0]
    /\ InitCaptcha
    /\ InitRoute
    /\ InitQuery

SpecRender == InitRender /\ [][Render]_vars

\* Posts arrive on two boards and the thread listing is read.
InitList ==
    /\ boards = BoardNames
    /\ next_post_id = [b \in BoardNames |-> 0]
    /\ posts = {}
    /\ replies = {}
    /\ lock = [b \in BoardNames |-> NoProc]
    /\ txPosts = [p \in Procs |-> {}]
    /\ pc = [p \in Procs |-> "idle"]
    /\ call = [p \in Procs |-> NoCall]
    /\ per_board_id = [p \in Procs |-> 0]
    /\ replied = [p \in Procs |-> {}]
    /\ result = [p \in Procs |-> "None"]
    /\ returned = [b \in BoardNames |-> <<>>]
    /\ failedId = [b \in BoardNames |-> 0]
    /\ InitCaptcha
    /\ InitRoute
    /\ InitQuery

NextList == ThreadCommitted \/ ReplyCommitted \/ ThreadsForBoard \/ ForThread

SpecList == InitList /\ [][NextList]_vars

\* Posters on two boards over a pool with as many connections as callers.
InitPool ==
    /\ boards = BoardNames
    /\ next_post_id = [b \in BoardNames |-> 0]
    /\ posts = {}
    /\ replies = {}
    /\ lock = [b \in BoardNames |-> NoProc]
    /\ txPosts = [p \in Procs |-> {}]
    /\ pc = [p \in Procs |-> "idle"]
    /\ call = [p \in Procs |-> NoCall]
    /\ per_board_id = [p \in Procs |-> 0]
    /\ replied = [p \in Procs |-> {}]
    /\ result = [p \in Procs |-> "None"]
    /\ returned = [b \in BoardNames |-> <<>>]
    /\ failedId = [b \in BoardNames |-> 0]
    /\ InitCaptcha
    /\ InitRoute
    /\ rin = NoQuery
    /\ rout = NoQuery
    /\ max_connections = PoolSize

\* Calls not yet at their counter UPDATE; a call is made while the counters
\* have an id left for it.
Pending == {q \in Procs : pc[q] \in {"begin", "update"}}

NextPool ==
    \E p \in Procs :
       \/ /\ SumCounters(BoardNames) + Cardinality(Pending) < MaxPosts
          /\ CallCreateThread(p) \/ CallCreate(p)
       \/ PostStep(p)
       \/ AcquireTimeout(p)

SpecPool == InitPool /\ [][NextPool]_vars

\* The statements of a call that are not failures of the store.
Progress(p) ==
    \/ Begin(p) \/ UpdateCounter(p) \/ HtmlBody(p) \/ InsertThread(p)
    \/ InsertPost(p) \/ InsertReply(p) \/ Commit(p)

\* The runtime polls every future that can make a step, and a wait for a
\* connection ends at the acquire timeout; the database grants a row lock to
\* each transaction that waits for it.
SpecPoolFair ==
    /\ SpecPool
    /\ \A p \in Procs : /\ WF_vars(Progress(p) \/ AcquireTimeout(p))
                        /\ SF_vars(UpdateCounter(p))

\* ------------------------------------------------- properties, sequencer
\* The ids the calls on board b returned with Ok.
ReturnedIds(b) == {returned[b][i] : i \in DOMAIN returned[b]}

\* C1: on every board the ids returned by the calls that committed are
\* pairwise distinct and are exactly 1..N for the N commits (the counter
\* starts at 0): no duplicate and no gap, whatever the interleaving and
\* whatever attempts failed in between.
C1_DistinctContiguousIds ==
    \A b \in BoardNames :
        /\ ReturnedIds(b) = 1..Len(returned[b])
        /\ Cardinality(ReturnedIds(b)) = Len(returned[b])

\* Two calls ran concurrently on board a (one waited on the row the other
\* held) after two earlier calls had committed there.
C1_Witness ==
    /\ Len(returned["a"]) >= 2
    /\ \E p, q \in Procs :
         /\ p # q
         /\ lock["a"] = p
         /\ pc[q] = "update" /\ call[q].board = "a"

\* C2: post creation is all-or-nothing: once no call is running, every
\* visible post row and every visible reply edge was written by a call that
\* committed (a failed or abandoned attempt leaves nothing behind).
C2_AllOrNothing ==
    (\A p \in Procs : pc[p] = "idle") =>
        /\ \A q \in posts : q.id \in ReturnedIds(q.board)
        /\ \A e \in replies : e.reply_id \in ReturnedIds(e.reply_board)

\* C3: after an attempt failed past its counter increment the counter is
\* back at its value before the increment, and the next attempt on the
\* board is handed the id the failed attempt held.
C3_RollbackReusesId ==
    \A b \in BoardNames :
        failedId[b] # 0 =>
            IF lock[b] = NoProc
            THEN NextId(b) = failedId[b]
            ELSE per_board_id[lock[b]] = failedId[b]

\* An attempt on board a failed holding id 2, and the next attempt holds
\* id 2 again with its post written, ready to commit.
C3_Witness ==
    /\ failedId["a"] = 2
    /\ \E p \in Procs :
         /\ lock["a"] = p /\ pc[p] = "replies" /\ replied[p] = {}
         /\ per_board_id[p] = 2

\* C4: no two posts share (board, id); no post's id exceeds its board's
\* next_post_id (read while no transaction holds the board row); an id a
\* stored post carries is not handed out again.
C4_IdsUniqueBelowCounter ==
    /\ \A q1, q2 \in posts : (q1.board = q2.board /\ q1.id = q2.id) => q1 = q2
    /\ \A q \in posts : lock[q.board] = NoProc => q.id <= next_post_id[q.board]
    /\ \A p \in Procs :
         pc[p] \in {"html", "insert"} =>
             PostKeyFree(posts, call[p].board, per_board_id[p])

C6_ThreadNamesRoot ==
    \A q \in posts :
        \/ q.thread = q.id
        \/ \E r \in posts : r.board = q.board /\ r.id = q.thread /\ r.thread = r.id

\* --------------------------------------------------- properties, captcha
CaptchaRowIds == {c.id : c \in captchas}
Returned(p) == pc[p] = "idle" /\ verified[p].value \in {"true", "false"}

\* C7: challenges are single-use.  Once verify(id, answer) has run its
\* DELETE the challenge is gone, whether or not the answer matches; a verify
\* that found the challenge and was given its solution in any letter case
\* returned true; a verify called after another verify on the same id had
\* returned, returned false.
C7_SingleUse ==
    \A p \in Procs :
        /\ (pc[p] = "verify_return" \/ Returned(p)) => vcall[p].id \notin CaptchaRowIds
        /\ verified[p].correct => verified[p].value = "true"
        /\ (Returned(p) /\ vcall[p].late) => verified[p].value = "false"

\* One verify returned true for a challenge, and a later verify on the same
\* id has returned false.
C7_Witness ==
    \E p, q \in Procs :
        /\ p # q
        /\ Returned(p) /\ verified[p].correct /\ verified[p].value = "true"
        /\ vcall[p].id > 0
        /\ Returned(q) /\ vcall[q].late /\ vcall[q].id = vcall[p].id
        /\ verified[q].value = "false"

\* C8: of two verify calls on the same challenge id, at most one returns
\* true.
C8_AtMostOneTrue ==
    \A p, q \in Procs :
        (p # q /\ vcall[p].id = vcall[q].id /\ verified[p].value = "true")
            => verified[q].value # "true"

\* Two verify calls on one id are in flight together, both past their
\* DELETE: one holds the row, the other found none.
C8_Witness ==
    \E p, q \in Procs :
        /\ p # q
        /\ pc[p] = "verify_return" /\ pc[q] = "verify_return"
        /\ vcall[p].id = vcall[q].id
        /\ fetched[p].some /\ ~fetched[q].some

\* The address lies in the range of addresses the ban's network spans and
\* the ban's term has not run out.
InForce(b, ip) ==
    LET size == Pow2(AddrBits - b.net.prefix)
        base == b.net.addr - (b.net.addr % size)
    IN /\ base <= ip /\ ip < base + size
       /\ b.created_at + b.duration > now

\* C9: create_post answers MissingOrInvalidCaptchaID when the captcha_id
\* cookie is absent or unparsable, and when Captcha::verify returns false;
\* from the moment the handler body starts until that answer no post row, no
\* reply edge, no image record and no counter is changed.
C9_CaptchaRejects ==
    [][\A p \in RouteProcs :
         /\ pc[p] \in {"cookie", "verify_delete", "verify_return"}
               => UNCHANGED <<posts, txPosts, replies, images, next_post_id>>
         /\ (pc[p] = "cookie" /\ req'[p].cookie \in {"absent", "unparsable"})
               => result'[p] = "MissingOrInvalidCaptchaID" /\ pc'[p] = "idle"
         /\ (pc[p] = "verify_return" /\ pc'[p] # "verify_return"
               /\ verified'[p].value = "false")
               => result'[p] = "MissingOrInvalidCaptchaID" /\ pc'[p] = "idle"
         /\ (result'[p] = "MissingOrInvalidCaptchaID" /\ result'[p] # result[p])
               => pc[p] \in {"cookie", "verify_return"}]_vars

\* Both rejections have happened: one for the cookie, one for a false verify.
C9_Witness ==
    /\ result["r1"] = "MissingOrInvalidCaptchaID"
    /\ pc["r1"] = "idle"
    /\ req["r1"].cookie = "id"
    /\ verified["r1"].value = "false"
    /\ vcall["r1"].id > 0

C9_WitnessNoCookie ==
    /\ result["r1"] = "MissingOrInvalidCaptchaID"
    /\ req["r1"].cookie \in {"absent", "unparsable"}

\* C10: while a ban whose network holds the requester's address is in force,
\* the guard of create_post answers Banned (or the storage failure of its own
\* query) and the handler body is never entered, no post, edge, counter,
\* image or challenge being touched; when no such ban is in force the guard
\* does not answer Banned, and the request goes on.
C10_BannedUntilExpiry ==
    [][\A p \in RouteProcs :
         pc[p] = "guard" =>
           /\ UNCHANGED <<posts, txPosts, replies, images, next_post_id>>
           /\ captchas \subseteq captchas'
           /\ (\E b \in bans : InForce(b, req[p].ip))
                 => /\ pc'[p] \in {"guard", "idle"}
                    /\ pc'[p] = "idle" => result'[p] \in {"Banned", "Db"}
           /\ ~(\E b \in bans : InForce(b, req[p].ip))
                 => /\ result'[p] # "Banned"
                    /\ pc'[p] \in {"guard", "cookie", "idle"}
                    /\ pc'[p] = "idle" => result'[p] = "Db"]_vars

\* A request answered Banned was sent again after every matching ban had run
\* out, and its post was committed.
C10_Witness ==
    /\ req["r1"].again
    /\ req["r1"].ip = 1
    /\ result["r1"] = "Ok"
    /\ pc["r1"] = "idle"
    /\ \A b \in bans : ~InForce(b, 1)
    /\ posts # {}

\* C11: create_post for a new thread (no thread id) without an image answers
\* MissingImage and changes no post, edge or counter; create_post for a reply
\* without an image calls Post::create with no image, and the row that call
\* inserts has image = none.
C11_MissingImage ==
    [][\A p \in RouteProcs :
         /\ pc[p] = "dispatch"
               => /\ UNCHANGED <<posts, txPosts, replies, next_post_id, lock>>
                  /\ (req'[p].thread = "none" /\ req[p].image = "none")
                        => result'[p] = "MissingImage" /\ pc'[p] = "idle"
                  /\ (req'[p].thread = "some" /\ req[p].image = "none")
                        => /\ pc'[p] = "begin"
                           /\ call'[p].op = "create"
                           /\ call'[p].image = "none"
                  /\ result'[p] = "MissingImage"
                        => req'[p].thread = "none" /\ req[p].image = "none"
         /\ (result'[p] = "MissingImage" /\ result[p] # "MissingImage")
               => pc[p] = "dispatch"
         /\ (pc[p] \in InFlight /\ req[p].thread = "some"
               /\ req[p].image = "none")
               => \A r \in (posts' \ posts) \cup (txPosts'[p] \ txPosts[p]) :
                     r.image = "none" /\ r.id = per_board_id[p]]_vars

\* A reply sent without an image has been stored and the request answered Ok.
C11_Witness ==
    /\ result["r1"] = "Ok"
    /\ pc["r1"] = "idle"
    /\ req["r1"].thread = "some"
    /\ req["r1"].image = "none"
    /\ \E r \in posts : r.image = "none" /\ r.id # r.thread

\* A new thread sent without an image has been answered MissingImage.
C11_WitnessMissing ==
    /\ result["r1"] = "MissingImage"
    /\ req["r1"].thread = "none"
    /\ req["r1"].image = "none"

Quiet == \A p \in Procs : pc[p] = "idle"

\* C12: a call of Image::from_buf whose bytes hash to a digest already in
\* table images returns from its existence query with Ok and that digest,
\* and leaves table images, ./images and ./thumbs as they were.
C12_SecondCallNoOp ==
    [][\A p \in Procs :
         (/\ pc[p] = "img_select"
          /\ pc'[p] # "img_select"
          /\ Md5(icall[p].buf) \in images)
         => /\ UNCHANGED <<images, files, thumbs>>
            /\ pc'[p] \notin ImageSteps
            /\ \/ icall'[p].fault
               \/ /\ result'[p] = "Ok"
                  /\ icall'[p].ret = Md5(icall[p].buf)]_vars

\* Two calls with the same bytes have both returned Ok with the same digest;
\* only one of them can have inserted the record.
C12_Witness ==
    /\ Quiet
    /\ \A p \in Procs : /\ result[p] = "Ok"
                        /\ icall[p].from = "direct"
                        /\ icall[p].ret = Md5("img")
    /\ images = {Md5("img")}

\* C13: whatever calls of Image::from_buf have run, failed or stopped
\* between two steps, a digest in table images has its original in ./images
\* and its thumbnail in ./thumbs.
C13_RecordImpliesFiles ==
    \A h \in images : h \in files /\ h \in thumbs

\* A record exists next to the leftovers of a call that stopped half way.
C13_Witness ==
    /\ images # {}
    /\ \E p \in Procs : icall[p].fault /\ pc[p] = "idle"
    /\ \E h \in files : h \notin images

\* C14: once every call of Image::from_buf has ended, a digest has both its
\* original and its thumbnail on disk exactly when it has a record in table
\* images.
C14_FilesIffRecord ==
    Quiet => \A h \in files \cup thumbs \cup images :
                (h \in files /\ h \in thumbs) <=> h \in images

\* C15: a call of Image::from_buf with decodable bytes that no fault of the
\* environment has stopped returns Ok with the digest of its bytes, also
\* when another call with the same bytes runs beside it.
C15_ConcurrentBothOk ==
    \A p \in Procs :
       (/\ pc[p] = "idle"
        /\ icall[p].from = "direct"
        /\ Decodable(icall[p].buf)
        /\ ~icall[p].fault)
       => result[p] = "Ok" /\ icall[p].ret = Md5(icall[p].buf)

\* Error::respond_to: the status of the response for an outcome.
Status(kind) ==
    CASE kind = "NotFound" -> 404
      [] kind = "Banned" -> 200
      [] kind \in {"MissingImage", "MissingOrInvalidCaptchaID"} -> 422
      [] kind \in {"Db", "Image", "Io"} -> 500
      [] OTHER -> 0

\* C16: Post::create_thread and Post::create called with a board name that
\* is not in table boards end with the NotFound outcome, answered 404, and
\* leave posts, reply edges and every counter as they were.
C16_MissingBoardNotFound ==
    [][\A p \in Procs :
         (/\ pc[p] = "update"
          /\ call[p].board \notin boards
          /\ pc'[p] = "idle"
          /\ result'[p] # "None")
         => /\ result'[p] = "NotFound"
            /\ Status(result'[p]) = 404
            /\ UNCHANGED <<posts, replies, next_post_id>>]_vars

\* C17: the post INSERT of Post::create stores a row only if a post with the
\* supplied thread id was on the board before.
C17_UnknownThreadRejected ==
    [][\A p \in Procs :
         (pc[p] = "insert" /\ call[p].op = "create")
         => \A r \in posts' \ posts :
               \E q \in posts : q.board = r.board /\ q.id = r.thread]_vars

\* The positions of a text that hold a >>N marker.
Markers(text) == {i \in DOMAIN text : text[i].k = ">>"}

\* Post N of the marker at position i exists on the board.
MarkerPost(text, i, b) ==
    {r \in posts : /\ r.board = b
                   /\ ParseI32(text[i].d).ok
                   /\ r.id = ParseI32(text[i].d).v}

\* C18: for every text and every table of posts Post::html_body returns, and
\* the ids it returns are those of the >>N markers whose post N is on the
\* board; such a marker is rendered as a link to the thread of post N with
\* anchor N, every other marker as the literal &gt;&gt;N, and a text without
\* markers gives no ids.
C18_RendererResolves ==
    (rin.op = "html_body" /\ rin.body.some) =>
      LET text == rin.body.body
          out == rout.val
      IN /\ ~out.panic
         /\ out.ids = {r.id : r \in UNION {MarkerPost(text, i, rin.board) :
                                              i \in Markers(text)}}
         /\ Len(out.html) = Len(text)
         /\ \A i \in Markers(text) :
               IF MarkerPost(text, i, rin.board) # {}
               THEN \E r \in MarkerPost(text, i, rin.board) :
                       /\ out.html[i].k = "a"
                       /\ out.html[i].board = rin.board
                       /\ out.html[i].thread = r.thread
                       /\ ParseI32(out.html[i].anchor).v = r.id
               ELSE out.html[i] = [k |-> "&gt;&gt;", d |-> text[i].d]
         /\ \A i \in DOMAIN text \ Markers(text) : out.html[i].k # "a"

\* The same, for the texts whose markers all fit an i32.
C18_InRange ==
    (rin.op = "html_body" /\ rin.body.some
       /\ \A i \in Markers(rin.body.body) : ParseI32(rin.body.body[i].d).ok)
    => C18_RendererResolves

\* C19: Post::threads_for_board(B) returns root posts of board B only, one
\* for each thread of B and no two for the same thread, also when other
\* boards hold posts with the same ids.
C19_OneRootPerThread ==
    rin.op = "threads_for_board" =>
      LET rows == rout.val IN
      /\ \A i \in DOMAIN rows : /\ rows[i].board = rin.board
                                /\ rows[i].id = rows[i].thread
      /\ \A i, k \in DOMAIN rows : i # k => rows[i].thread # rows[k].thread
      /\ {rows[i].thread : i \in DOMAIN rows}
            = {r.thread : r \in {q \in rin.table : q.board = rin.board}}

\* The bump time of thread t of board b: the latest posted_at among its root
\* and its replies that are not sage.
BumpTime(table, b, t) ==
    MaxOf({r.posted_at : r \in {q \in table :
              /\ q.board = b /\ q.thread = t
              /\ (q.id = t \/ q.sage = FALSE)}})

C20_WitnessSage ==
    /\ rin.op = "threads_for_board"
    /\ Len(rout.val) >= 2
    /\ rout.val[2].board = rin.board
    /\ \E r \in rin.table : /\ r.board = rin.board
                            /\ r.thread = rout.val[2].id
                            /\ r.id # r.thread
                            /\ r.sage
                            /\ \A q \in rin.table \ {r} : q.posted_at < r.posted_at

\* C21: Post::for_thread(board, id), unless its query fails, returns the
\* posts of that board whose thread is id, all of them and no others; it
\* returns NotFound when there is none and only then; so for the id of a
\* thread root of the board the root is among the rows.
C21_ForThread ==
    (rin.op = "for_thread" /\ rout.val.kind # "Db") =>
      LET wanted == {r \in rin.table : r.board = rin.board /\ r.thread = rin.id} IN
      /\ rout.val.kind = "NotFound" <=> wanted = {}
      /\ rout.val.kind = "Ok" <=> wanted # {}
      /\ rout.val.rows = wanted
      /\ \A r \in rin.table :
            (r.board = rin.board /\ r.id = rin.id /\ r.thread = r.id)
               => r \in rout.val.rows

\* A thread with a reply was read on a board, while the other board holds a
\* thread with the same id.
C21_Witness ==
    /\ rin.op = "for_thread"
    /\ rout.val.kind = "Ok"
    /\ Cardinality(rout.val.rows) = 2
    /\ \E r \in rin.table : r.board # rin.board /\ r.thread = rin.id

\* A thread id no post of the board carries was read.
C21_WitnessNotFound ==
    /\ rin.op = "for_thread"
    /\ rout.val.kind = "NotFound"
    /\ \E r \in rin.table : r.board # rin.board /\ r.thread = rin.id

\* C22: no create_post request ends in a panic: every request that has
\* ended has a typed outcome.
C22_NoPanic ==
    \A p \in RouteProcs : result[p] # "Panic"

\* Post::replies(&self, pool): SELECT reply_id, reply_board, reply_thread
\* FROM replies WHERE message_id = $1 AND message_board = $2.
Replies(b, id) ==
    {[reply_id |-> e.reply_id, reply_board |-> e.reply_board,
      reply_thread |-> e.reply_thread] :
       e \in {f \in replies : f.message_id = id /\ f.message_board = b}}

\* What Post::replies on a referenced post is to show for the call of p.
NewReply(p) ==
    [reply_id |-> per_board_id[p], reply_board |-> call[p].board,
     reply_thread |-> IF call[p].op = "create_thread" THEN per_board_id[p]
                      ELSE call[p].thread]

\* C23: a call of Post::create_thread or Post::create whose text has resolved
\* markers can record its edges and commit: when it comes to insert them, its
\* new post is there for the edge to reference; and each edge INSERT that
\* succeeds adds exactly the new post, with its id, board and thread, to
\* Post::replies of one resolved post Q.
C23_EdgesRecorded ==
    /\ [](\A p \in Procs :
            (pc[p] = "replies" /\ replied[p] # {})
               => \E r \in posts : r.board = call[p].board /\ r.id = per_board_id[p])
    /\ [][\A p \in Procs :
            (pc[p] = "replies" /\ pc'[p] = "replies" /\ replied'[p] # replied[p])
               => \E m \in replied[p] :
                     /\ replied'[p] = replied[p] \ {m}
                     /\ Replies(call[p].board, m.id)'
                           = Replies(call[p].board, m.id) \cup {NewReply(p)}
                     /\ \A q \in PostIds \ {m.id} :
                           Replies(call[p].board, q)' = Replies(call[p].board, q)]_vars

\* The same for the calls of Post::create alone.
C23_CreateOnly ==
    /\ [](\A p \in Procs :
            (pc[p] = "replies" /\ replied[p] # {} /\ call[p].op = "create")
               => \E r \in posts : r.board = call[p].board /\ r.id = per_board_id[p])
    /\ [][\A p \in Procs :
            (pc[p] = "replies" /\ pc'[p] = "replies" /\ replied'[p] # replied[p])
               => \E m \in replied[p] :
                     /\ replied'[p] = replied[p] \ {m}
                     /\ Replies(call[p].board, m.id)'
                           = Replies(call[p].board, m.id) \cup {NewReply(p)}]_vars

\* No edge of a thread-opening post made by Post::create_thread is ever
\* recorded: an edge whose reply is a thread root with an image was made by
\* Post::create with thread = its own id.
C23_NoThreadEdge ==
    [][\A p \in Procs :
         (pc[p] = "replies" /\ call[p].op = "create_thread")
            => replies' = replies]_vars

\* The call p cannot run its next statement: it waits for a connection of
\* the pool or for the row of its board.
Waiting(p) ==
    \/ /\ Idle = 0
       /\ \/ pc[p] = "begin"
          \/ pc[p] = "insert" /\ call[p].op = "create"
          \/ pc[p] = "replies" /\ replied[p] # {}
    \/ /\ pc[p] = "update"
       /\ call[p].board \in boards
       /\ lock[call[p].board] # NoProc

\* C24 (third part): a call that is alone on its board never waits, whatever
\* calls are in flight on other boards.
C24_BoardsIndependent ==
    \A p \in Procs :
       (/\ pc[p] \in InFlight
        /\ \A q \in Procs \ {p} : pc[q] \in InFlight => call[q].board # call[p].board)
       => ~Waiting(p)

\* C24 (second part): the calls in flight never all wait at once.
C24_NoMutualWait ==
    ~(/\ \E p \in Procs : pc[p] \in InFlight
      /\ \A p \in Procs : pc[p] \in InFlight => Waiting(p))

\* C24 (first part): every call eventually commits or fails.
C24_EventuallyReturns == \A p \in Procs : (pc[p] \in InFlight) ~> (pc[p] = "idle")

\* A waiting call is one none of whose statements can run.
C24_WaitingIsDisabled == \A p \in Procs : Waiting(p) => ~ENABLED Progress(p)

\* The cap on the counters never holds back a counter UPDATE here.
C24_CapUnused ==
    \A p \in Procs :
       (pc[p] = "update" /\ call[p].board \in boards) => SumCounters(BoardNames) < MaxPosts
\* C25: the guard of create_post rejects with the reason of a ban that is in
\* force for the requester's address and was created latest among the bans in
\* force for it; a ban that has run out neither rejects nor lends its reason,
\* whatever other bans exist.
C25_LatestUnexpiredReason ==
    [][\A p \in RouteProcs :
         (pc[p] = "guard" /\ pc'[p] # "guard") =>
           LET live == {b \in bans : InForce(b, req[p].ip)} IN
           /\ result'[p] = "Banned" =>
                 \E b \in live : /\ req'[p].reason = b.reason
                                 /\ \A c \in live : c.created_at <= b.created_at
           /\ (live # {} /\ result'[p] # "Db") => result'[p] = "Banned"
           /\ live = {} => result'[p] # "Banned"]_vars

\* Both bans on the requester's address are in force and the later one
\* gave the reason.
C25_Witness ==
    /\ result["r1"] = "Banned"
    /\ req["r1"].reason = "flood"
    /\ Cardinality({b \in bans : InForce(b, req["r1"].ip)}) = 2

\* The ban created last has run out, an older one is in force and gave the
\* reason.
C25_WitnessExpired ==
    /\ result["r1"] = "Banned"
    /\ req["r1"].reason = "spam"
    /\ req["r1"].ip = 1
    /\ \E b \in bans : /\ b.reason = "flood"
                        /\ ~InForce(b, 1)
                        /\ \A c \in bans : c.created_at <= b.created_at
\* C26: a request of create_post whose captcha_id cookie names a challenge
\* leaves that challenge consumed however the request ends, so that no later
\* request presenting the same token finds it and creates a post.
C26_ConsumedByPresenter ==
    [][\A p \in RouteProcs :
         (/\ pc[p] # "idle"
          /\ pc'[p] = "idle"
          /\ vcall'[p].from = "create_post"
          /\ ~vcall'[p].late)
         => \A c \in captchas' : c.id # vcall'[p].id]_vars

\* C26 (first part): a verification that returns true is the first finished
\* verification of its challenge and the challenge is gone from the table
\* when it returns; a challenge some finished verification has named never
\* comes back, whatever the outcome of the request; a request is past its
\* verification when it adds a post, and a step adds at most one post.
C26_OnePostPerChallenge ==
    [][\A p \in RouteProcs :
         /\ (pc[p] = "verify_return" /\ verified'[p].value = "true")
               => /\ vcall[p].id \notin consumed
                  /\ \A c \in captchas' : c.id # vcall[p].id
         /\ (pc[p] \in InFlight \cup ImageSteps \cup {"image", "dispatch"})
               => verified[p].value = "true"
         /\ \A c \in captchas' : c.id \notin consumed'
         /\ Cardinality(posts' \ posts) <= 1
         /\ posts' # posts => pc[p] \in InFlight /\ pc'[p] # "begin"]_vars

\* A request that passed verification failed afterwards and its challenge is
\* gone.
C26_Witness ==
    /\ pc["r1"] = "idle"
    /\ result["r1"] \in {"MissingImage", "Image", "Io", "Db"}
    /\ verified["r1"].value = "true"
    /\ consumed # {}
    /\ \A c \in captchas : c.id \notin consumed
\* C27: every reply edge stays on one board, carries the thread of the post
\* that replies, and points from a post to one with a smaller id: no post has
\* an edge to itself or to a post created after it.
C27_EdgesPointBack ==
    \A e \in replies :
       /\ e.message_board = e.reply_board
       /\ e.message_id < e.reply_id
       /\ \E r \in posts : /\ r.board = e.reply_board
                            /\ r.id = e.reply_id
                            /\ r.thread = e.reply_thread
       /\ \A r \in posts : (r.board = e.reply_board /\ r.id = e.reply_id)
                               => r.thread = e.reply_thread

\* A reply with a marker was committed and its edge recorded, by a call that
\* ran while another call was in flight.
C27_Witness ==
    /\ replies # {}
    /\ \E p \in Procs : pc[p] \in InFlight
    /\ \E e \in replies : \E r \in posts : r.board = e.reply_board /\ r.id = e.reply_id
====
